---- MODULE Spec2Model ----
(***************************************************************************)
(* A model of ribbit (src/src/lib.rs): the journal habit counter.          *)
(*                                                                         *)
(*   find_files -> parse_frontmatter -> sort_by_key(date) -> filters ->    *)
(*   count (take(7), fold) -> print                                        *)
(*                                                                         *)
(* The program is one sequential run; pc is its position in run().         *)
(***************************************************************************)
EXTENDS Integers, Sequences, FiniteSets, TLC

VARIABLES
    dir,            \* the directory tree handed to find_files (journal_dir)
    md_files,       \* find_files: the paths pushed so far / returned
    files,          \* the contents found behind the paths given to parse_frontmatter
    fidx,           \* parse_frontmatter: index of the file the iterator is at
    block,          \* parse_frontmatter: the Option<Vec<String>> of the current file
    front_matters,  \* run: the Vec<Fm>
    matches,        \* run: the parsed command line (action, habit, time)
    today,          \* Local::now().date_naive()
    fm,             \* count: the vector handed to count()
    folded,         \* count: number of items the fold has consumed
    tally,          \* count: the fold's accumulator (HabitCount)
    output,         \* the lines printed to standard output
    pc              \* position in run()

vars == <<dir, md_files, files, fidx, block, front_matters, matches, today,
          fm, folded, tally, output, pc>>

walkVars == <<dir, md_files>>
parseVars == <<files, fidx, block>>
countVars == <<fm, folded, tally, output>>

-----------------------------------------------------------------------------
(* Bounds of the model *)

MaxEntries == 8
YearSpan == 2
MaxLines == 6
MaxFiles == 3
MaxDirEntries == 3

(* Program constant: count() folds fm.into_iter().take(7) *)
TakeLimit == 7

Min(a, b) == IF a < b THEN a ELSE b

-----------------------------------------------------------------------------
(* chrono::NaiveDate, as far as filter_by_time and sort_by_key read it *)

IsLeap(y) == (y % 4 = 0 /\ y % 100 # 0) \/ y % 400 = 0

DaysInMonth(y, m) ==
    CASE m = 2 -> IF IsLeap(y) THEN 29 ELSE 28
      [] m \in {4, 6, 9, 11} -> 30
      [] OTHER -> 31

RECURSIVE DaysBefore(_, _)
DaysBefore(y, m) == IF m = 1 THEN 0 ELSE DaysBefore(y, m - 1) + DaysInMonth(y, m - 1)

(* day of the year, 1-based *)
Ordinal(d) == DaysBefore(d.year, d.month) + d.day

(* weekday of 1 January, 0 = Sunday .. 6 = Saturday *)
Jan1(y) == (1 + 5 * ((y - 1) % 4) + 4 * ((y - 1) % 100) + 6 * ((y - 1) % 400)) % 7

(* ISO weekday, 1 = Monday .. 7 = Sunday *)
Weekday(d) ==
    LET w == (Jan1(d.year) + Ordinal(d) - 1) % 7
    IN  IF w = 0 THEN 7 ELSE w

(* number of ISO weeks of a year: 53 when it starts on a Thursday, or is a
   leap year starting on a Wednesday *)
NIsoWeeks(y) == IF Jan1(y) = 4 \/ (IsLeap(y) /\ Jan1(y) = 3) THEN 53 ELSE 52

(* the (ISO year, ISO week number) pair of a date *)
IsoYearWeek(d) ==
    LET raw == (Ordinal(d) - Weekday(d) + 10) \div 7
    IN  IF raw < 1 THEN [year |-> d.year - 1, week |-> NIsoWeeks(d.year - 1)]
        ELSE IF raw > NIsoWeeks(d.year) THEN [year |-> d.year + 1, week |-> 1]
        ELSE [year |-> d.year, week |-> raw]

(* year flags kept in the low four bits of chrono's packed IsoWeek: bit 3 is
   set for a common year, the low bits follow the weekday of 1 January *)
YearFlags(y) == (IF IsLeap(y) THEN 0 ELSE 8) + Jan1(y)

(* Datelike::iso_week: chrono's IsoWeek is one packed integer,
   (year << 10) | (week << 4) | flags, and its == compares that integer *)
IsoWeek(d) ==
    LET yw == IsoYearWeek(d)
    IN  yw.year * 1024 + yw.week * 16 + YearFlags(yw.year)

(* NaiveDate's Ord: the key of sort_by_key *)
DateLess(a, b) ==
    \/ a.year < b.year
    \/ a.year = b.year /\ a.month < b.month
    \/ a.year = b.year /\ a.month = b.month /\ a.day < b.day

MkDate(y, m, d) == [year |-> y, month |-> m, day |-> d]
MkHabit(e, c, r) == [exercise |-> e, contrib |-> c, reading |-> r]
MkFm(t, d, h) == [title |-> t, date |-> d, habits |-> h]

-----------------------------------------------------------------------------
(* filter_by_time *)

(* a faulty variant: Week compares the ISO week number alone *)
WeekOnlyMatches(f, filter, t) ==
    CASE filter = "day"   -> f.date = t
      [] filter = "week"  -> IsoYearWeek(f.date).week = IsoYearWeek(t).week
      [] filter = "month" -> f.date.month = t.month
      [] filter = "year"  -> f.date.year = t.year

(* a faulty variant: Month compares the year as well *)
MonthYearMatches(f, filter, t) ==
    CASE filter = "day"   -> f.date = t
      [] filter = "week"  -> IsoWeek(f.date) = IsoWeek(t)
      [] filter = "month" -> f.date.month = t.month /\ f.date.year = t.year
      [] filter = "year"  -> f.date.year = t.year

(* the closure of filter_by_time: one arm per TimeFilter *)
TimeMatches(f, filter, t) ==
    CASE filter = "day"   -> f.date = t
      [] filter = "week"  -> IsoWeek(f.date) = IsoWeek(t)
      [] filter = "month" -> f.date.month = t.month
      [] filter = "year"  -> f.date.year = t.year

filter_by_time(v, filter, t) == SelectSeq(v, LAMBDA f : TimeMatches(f, filter, t))

(* the closure of count_filtered_habit: one arm per HabitFilter *)
HabitMatches(f, filter) ==
    CASE filter = "exercise" -> f.habits.exercise = TRUE
      [] filter = "contrib"  -> f.habits.contrib = TRUE
      [] filter = "reading"  -> f.habits.reading = TRUE

(* a faulty variant: the 7-entry cap is taken before the habit filter *)
FilterHabitAfterCap(v, filter) ==
    SelectSeq(SubSeq(v, 1, Min(TakeLimit, Len(v))), LAMBDA f : HabitMatches(f, filter))

(* count_filtered_habit: the filter and collect, before count(fm) *)
FilterHabit(v, filter) == SelectSeq(v, LAMBDA f : HabitMatches(f, filter))

-----------------------------------------------------------------------------
(* front_matters.sort_by_key(|f| f.date): a stable sort, ascending *)

RECURSIVE InsertByDate(_, _)
InsertByDate(sorted, f) ==
    IF sorted = <<>> THEN <<f>>
    ELSE IF DateLess(f.date, sorted[Len(sorted)].date)
         THEN Append(InsertByDate(SubSeq(sorted, 1, Len(sorted) - 1), f),
                     sorted[Len(sorted)])
         ELSE Append(sorted, f)

RECURSIVE SortByDate(_)
SortByDate(v) ==
    IF v = <<>> THEN <<>>
    ELSE InsertByDate(SortByDate(SubSeq(v, 1, Len(v) - 1)), v[Len(v)])

-----------------------------------------------------------------------------
(* HabitCount *)

NoBlock == [some |-> FALSE, lines |-> <<>>]

ZeroCount == [exercise |-> 0, reading |-> 0, contrib |-> 0]

(* a faulty variant: contrib and reading feed each other's counter *)
AddSwapped(hc, rhs) ==
    [exercise |-> hc.exercise + (IF rhs.exercise THEN 1 ELSE 0),
     contrib  |-> hc.contrib + (IF rhs.reading THEN 1 ELSE 0),
     reading  |-> hc.reading + (IF rhs.contrib THEN 1 ELSE 0)]

(* impl Add<Habit> for HabitCount *)
HabitCountAdd(hc, rhs) ==
    [exercise |-> hc.exercise + (IF rhs.exercise THEN 1 ELSE 0),
     contrib  |-> hc.contrib + (IF rhs.contrib THEN 1 ELSE 0),
     reading  |-> hc.reading + (IF rhs.reading THEN 1 ELSE 0)]

(* the number of items fm.into_iter().take(7) yields *)
Taken(v) == Min(TakeLimit, Len(v))

PrintLine(n, name) == [count |-> n, name |-> name]

(* a faulty variant: the Contrib arm prints the exercise counter *)
PrintFilteredWrong(hc, filter) ==
    CASE filter = "exercise" -> <<PrintLine(hc.exercise, "exercise")>>
      [] filter = "contrib"  -> <<PrintLine(hc.exercise, "contrib")>>
      [] filter = "reading"  -> <<PrintLine(hc.reading, "reading")>>

(* HabitCount::print_filtered *)
PrintFiltered(hc, filter) ==
    CASE filter = "exercise" -> <<PrintLine(hc.exercise, "exercise")>>
      [] filter = "contrib"  -> <<PrintLine(hc.contrib, "contrib")>>
      [] filter = "reading"  -> <<PrintLine(hc.reading, "reading")>>

(* HabitCount::print *)
PrintAll(hc) ==
    <<PrintLine(hc.exercise, "exercise"),
      PrintLine(hc.contrib, "contrib"),
      PrintLine(hc.reading, "reading")>>

-----------------------------------------------------------------------------
(* find_files: a directory is [readable, entries]; read_dir yields its
   entries in order. An entry is a file (with its extension), a directory
   (sub), an entry whose read fails (the iterator's item is Err), or an entry
   whose file_type() fails. A found file is named by its path, the sequence
   of entry positions that leads to it from the root. *)

NoDir == [readable |-> FALSE, entries |-> <<>>]

FileEntry(ext) == [kind |-> "file", ext |-> ext, sub |-> NoDir]
DirEntry(d) == [kind |-> "dir", ext |-> "", sub |-> d]
EntryErr == [kind |-> "entry_err", ext |-> "", sub |-> NoDir]
TypeErr == [kind |-> "type_err", ext |-> "", sub |-> NoDir]

WalkResult(status, found) == [status |-> status, files |-> found]

RECURSIVE find_files(_, _, _)
RECURSIVE WalkEntries(_, _, _, _)

(* the for loop, at entry i of directory d, with the paths pushed so far *)
WalkEntries(d, path, i, acc) ==
    IF i > Len(d.entries) THEN WalkResult("ok", acc)
    ELSE LET e == d.entries[i]
         IN  CASE e.kind = "entry_err" ->
                    \* el.as_ref().unwrap() on an Err: the thread panics
                    WalkResult("panic", acc)
               [] e.kind = "type_err" ->
                    \* if let Ok(ft) = el?.file_type(): skipped
                    WalkEntries(d, path, i + 1, acc)
               [] e.kind = "dir" ->
                    \* find_files(md_files, path)?: an error is returned on
                    LET r == find_files(e.sub, Append(path, i), acc)
                    IN  IF r.status # "ok" THEN r
                        ELSE WalkEntries(d, path, i + 1, r.files)
               [] e.kind = "file" ->
                    WalkEntries(d, path, i + 1,
                                IF e.ext = "md" THEN Append(acc, Append(path, i))
                                ELSE acc)

(* for el in dir.read_dir()? { .. } Ok(()) *)
find_files(d, path, acc) ==
    IF ~d.readable THEN WalkResult("err", acc)
    ELSE WalkEntries(d, path, 1, acc)

(* run: find_files(&mut files, matches.journal_dir)? returns Ok *)
WalkOk ==
    /\ pc = "walk"
    /\ find_files(dir, <<>>, md_files).status = "ok"
    /\ md_files' = find_files(dir, <<>>, md_files).files
    /\ pc' = "parse"
    /\ UNCHANGED <<dir, parseVars, front_matters, matches, today, countVars>>

(* run: find_files returns Err, and the ? returns it from run *)
WalkErr ==
    /\ pc = "walk"
    /\ find_files(dir, <<>>, md_files).status = "err"
    /\ md_files' = find_files(dir, <<>>, md_files).files
    /\ pc' = "failed"
    /\ UNCHANGED <<dir, parseVars, front_matters, matches, today, countVars>>

(* run: find_files panics, and the process aborts *)
WalkPanic ==
    /\ pc = "walk"
    /\ find_files(dir, <<>>, md_files).status = "panic"
    /\ md_files' = find_files(dir, <<>>, md_files).files
    /\ pc' = "panicked"
    /\ UNCHANGED <<dir, parseVars, front_matters, matches, today, countVars>>

NextWalk ==
    \/ WalkOk
    \/ WalkErr
    \/ WalkPanic

-----------------------------------------------------------------------------
(* parse_frontmatter: the lines of a file, the block between the markers, and
   serde_yaml's decoding of the block into Fm *)

Marker == "---"
TitleLine == "title: run"
DateLineA == "date: 2024-01-10"
DateLineB == "date: 2023-03-11"
HabitsLineA == "habits: {exercise: true, contrib: false, reading: true}"
HabitsLineB == "habits: {exercise: false, contrib: true, reading: true}"
HabitsLinePartial == "habits: {exercise: true, contrib: false}"
BodyLine == "Went for a run."

(* the key a line sets when the block is read as a YAML mapping; a line of
   prose is no mapping entry and makes the document fail to parse *)
LineKey(l) ==
    CASE l = TitleLine -> "title"
      [] l \in {DateLineA, DateLineB} -> "date"
      [] l \in {HabitsLineA, HabitsLineB, HabitsLinePartial} -> "habits"
      [] OTHER -> "prose"

LineDate(l) == IF l = DateLineA THEN MkDate(2024, 1, 10) ELSE MkDate(2023, 3, 11)

LineHabits(l) ==
    IF l = HabitsLineA THEN MkHabit(TRUE, FALSE, TRUE) ELSE MkHabit(FALSE, TRUE, TRUE)

KeyLines(lines, key) == {i \in 1..Len(lines) : LineKey(lines[i]) = key}

(* serde_yaml::from_str::<Fm>(..).ok() is Some: the text is a mapping, each of
   title, date and habits is set once, and habits has its three flags *)
DecodeOk(lines) ==
    /\ KeyLines(lines, "prose") = {}
    /\ \A key \in {"title", "date", "habits"} : Cardinality(KeyLines(lines, key)) = 1
    /\ \A i \in KeyLines(lines, "habits") : lines[i] # HabitsLinePartial

(* the Fm it decodes to *)
DecodeFm(lines) ==
    MkFm("run",
         LineDate(lines[CHOOSE i \in KeyLines(lines, "date") : TRUE]),
         LineHabits(lines[CHOOSE i \in KeyLines(lines, "habits") : TRUE]))

(* the loop of lines 147-156: a marker flips delim, any other line is pushed
   while delim is set *)
RECURSIVE ScanLines(_, _, _, _)
ScanLines(lines, i, delim, acc) ==
    IF i > Len(lines) THEN acc
    ELSE IF lines[i] = Marker THEN ScanLines(lines, i + 1, ~delim, acc)
    ELSE ScanLines(lines, i + 1, delim, IF delim THEN Append(acc, lines[i]) ELSE acc)

SomeBlock(acc) == [some |-> TRUE, lines |-> acc]

(* the first closure of parse_frontmatter on a file that was read:
   Some(fm) if fm.len() > 0, else None *)
ExtractBlock(lines) ==
    LET acc == ScanLines(lines, 1, FALSE, <<>>)
    IN  IF Len(acc) > 0 THEN SomeBlock(acc) ELSE NoBlock

Unreadable == [readable |-> FALSE, lines |-> <<>>]
FileOf(lines) == [readable |-> TRUE, lines |-> lines]

(* read_to_string(f) is Err: the file yields None *)
ReadFail ==
    /\ pc = "parse"
    /\ fidx <= Len(files)
    /\ ~files[fidx].readable
    /\ block' = NoBlock
    /\ fidx' = fidx + 1
    /\ UNCHANGED <<walkVars, files, front_matters, matches, today, countVars, pc>>

(* read_to_string(f) is Ok: scan the lines for the block *)
Extract ==
    /\ pc = "parse"
    /\ fidx <= Len(files)
    /\ files[fidx].readable
    /\ block' = ExtractBlock(files[fidx].lines)
    /\ pc' = "decode"
    /\ UNCHANGED <<walkVars, files, fidx, front_matters, matches, today, countVars>>

(* the second closure: a block that decodes is collected, any other is
   dropped; a file without a block never reaches the decoder *)
Decode ==
    /\ pc = "decode"
    /\ front_matters' =
          IF block.some /\ DecodeOk(block.lines)
          THEN Append(front_matters, DecodeFm(block.lines))
          ELSE front_matters
    /\ fidx' = fidx + 1
    /\ pc' = "parse"
    /\ UNCHANGED <<walkVars, files, block, matches, today, countVars>>

(* the iterator is exhausted: parse_frontmatter returns Ok(..) *)
ParseDone ==
    /\ pc = "parse"
    /\ fidx > Len(files)
    /\ pc' = "sort"
    /\ UNCHANGED <<walkVars, parseVars, front_matters, matches, today, countVars>>

NextParse ==
    \/ ReadFail
    \/ Extract
    \/ Decode
    \/ ParseDone

-----------------------------------------------------------------------------
(* The command line: Cli { action: Option<Action::Filter { habit, time }> } *)

HabitFilters == {"exercise", "contrib", "reading"}
TimeFilters == {"week", "month", "day", "year"}

Matches ==
    {[action |-> "none", habit |-> "none", time |-> "none"]} \cup
    [action : {"filter"}, habit : HabitFilters \cup {"none"},
     time : TimeFilters \cup {"none"}]

SeqsUpTo(S, n) == UNION {[1..k -> S] : k \in 0..n}

-----------------------------------------------------------------------------
(* run(), from the sort on: lines 105-136 *)

(* front_matters.sort_by_key(|f| f.date) *)
Sort ==
    /\ pc = "sort"
    /\ front_matters' = SortByDate(front_matters)
    /\ pc' = "match"
    /\ UNCHANGED <<walkVars, parseVars, matches, today, countVars>>

(* (Some(filter), None) => count_filtered_habit(front_matters, filter) *)
ArmHabit ==
    /\ pc = "match"
    /\ matches.habit # "none" /\ matches.time = "none"
    /\ fm' = FilterHabit(front_matters, matches.habit)
    /\ pc' = "count"
    /\ UNCHANGED <<walkVars, parseVars, front_matters, matches, today,
                   folded, tally, output>>

(* (None, None) => count(front_matters), and the arm of no subcommand *)
ArmNone ==
    /\ pc = "match"
    /\ matches.habit = "none" /\ matches.time = "none"
    /\ fm' = front_matters
    /\ pc' = "count"
    /\ UNCHANGED <<walkVars, parseVars, front_matters, matches, today,
                   folded, tally, output>>

(* (None, Some(time)) => count_filtered_time(front_matters, time) *)
ArmTime ==
    /\ pc = "match"
    /\ matches.habit = "none" /\ matches.time # "none"
    /\ fm' = filter_by_time(front_matters, matches.time, today)
    /\ pc' = "count"
    /\ UNCHANGED <<walkVars, parseVars, front_matters, matches, today,
                   folded, tally, output>>

(* (Some(filter), Some(time)) => filter_by_time, then count_filtered_habit *)
ArmBoth ==
    /\ pc = "match"
    /\ matches.habit # "none" /\ matches.time # "none"
    /\ fm' = FilterHabit(filter_by_time(front_matters, matches.time, today),
                         matches.habit)
    /\ pc' = "count"
    /\ UNCHANGED <<walkVars, parseVars, front_matters, matches, today,
                   folded, tally, output>>

(* count: one step of fm.into_iter().take(7).fold(HabitCount::default(), ..) *)
FoldStep ==
    /\ pc = "count"
    /\ folded < Taken(fm)
    /\ tally' = HabitCountAdd(tally, fm[folded + 1].habits)
    /\ folded' = folded + 1
    /\ UNCHANGED <<walkVars, parseVars, front_matters, matches, today,
                   fm, output, pc>>

(* the fold is over: count.print_filtered(filter) in the arms with a habit *)
ReportFiltered ==
    /\ pc = "count"
    /\ folded = Taken(fm)
    /\ matches.habit # "none"
    /\ output' = PrintFiltered(tally, matches.habit)
    /\ pc' = "done"
    /\ UNCHANGED <<walkVars, parseVars, front_matters, matches, today,
                   fm, folded, tally>>

(* the fold is over: count.print() in the arms without a habit *)
Report ==
    /\ pc = "count"
    /\ folded = Taken(fm)
    /\ matches.habit = "none"
    /\ output' = PrintAll(tally)
    /\ pc' = "done"
    /\ UNCHANGED <<walkVars, parseVars, front_matters, matches, today,
                   fm, folded, tally>>

NextTally ==
    \/ Sort
    \/ ArmHabit
    \/ ArmNone
    \/ ArmTime
    \/ ArmBoth
    \/ FoldStep
    \/ ReportFiltered
    \/ Report

-----------------------------------------------------------------------------
(* Spec: run() on a journal whose files all decoded; the entries are drawn
   in discovery order, the day of the run is RunToday *)

RunToday == MkDate(2024, 3, 15)

TallyEntries ==
    {MkFm("a", MkDate(2024, 3, 15), MkHabit(TRUE, FALSE, TRUE)),
     MkFm("b", MkDate(2023, 3, 10), MkHabit(FALSE, TRUE, TRUE)),
     MkFm("c", MkDate(2024, 3, 12), MkHabit(TRUE, TRUE, FALSE))}

Init ==
    /\ dir = [readable |-> TRUE, entries |-> <<>>]
    /\ md_files = <<>>
    /\ files = <<>>
    /\ fidx = 1
    /\ block = NoBlock
    /\ front_matters \in SeqsUpTo(TallyEntries, MaxEntries)
    /\ matches \in Matches
    /\ today = RunToday
    /\ fm = <<>>
    /\ folded = 0
    /\ tally = ZeroCount
    /\ output = <<>>
    /\ pc = "sort"

Spec == Init /\ [][NextTally]_vars

-----------------------------------------------------------------------------
(* SpecTime: the arm (None, Some(time)) of run() on a one-entry journal, the
   entry's date and the day of the run drawn from the sample dates *)

SampleYears == 2023 .. 2023 + YearSpan
SampleMonths == {1, 6, 12}
SampleDays == {1, 2, 3, 4, 5, 28, 29, 30, 31}

SampleDates ==
    {d \in [year : SampleYears, month : SampleMonths, day : SampleDays] :
        d.day <= DaysInMonth(d.year, d.month)}

InitTime ==
    /\ dir = [readable |-> TRUE, entries |-> <<>>]
    /\ md_files = <<>>
    /\ files = <<>>
    /\ fidx = 1
    /\ block = NoBlock
    /\ \E d \in SampleDates :
          front_matters = <<MkFm("a", d, MkHabit(TRUE, FALSE, TRUE))>>
    /\ matches \in [action : {"filter"}, habit : {"none"}, time : TimeFilters]
    /\ today \in SampleDates
    /\ fm = <<>>
    /\ folded = 0
    /\ tally = ZeroCount
    /\ output = <<>>
    /\ pc = "match"

NextTime ==
    \/ ArmTime
    \/ FoldStep
    \/ Report

SpecTime == InitTime /\ [][NextTime]_vars

-----------------------------------------------------------------------------
(* Claims about the filters, the cap and the fold *)

(* the entry passes the filters the command line gives *)
Passes(f) ==
    /\ matches.time = "none" \/ TimeMatches(f, matches.time, today)
    /\ matches.habit = "none" \/ HabitMatches(f, matches.habit)

(* positions, in a vector, of the entries that pass *)
PassIdxOf(v) == {i \in 1..Len(v) : Passes(v[i])}

(* the first 7 of them *)
FirstIdxOf(v) ==
    {i \in PassIdxOf(v) : Cardinality({j \in PassIdxOf(v) : j < i}) < 7}

(* the same on the sorted front_matters, and the last 7 *)
PassIdx == PassIdxOf(front_matters)
FirstIdx == FirstIdxOf(front_matters)
LastIdx == {i \in PassIdx : Cardinality({j \in PassIdx : j > i}) < 7}

CountOver(v, I) ==
    [exercise |-> Cardinality({i \in I : v[i].habits.exercise}),
     contrib  |-> Cardinality({i \in I : v[i].habits.contrib}),
     reading  |-> Cardinality({i \in I : v[i].habits.reading})]

SortedAsc(v) ==
    \A i, j \in 1..Len(v) : i < j => ~DateLess(v[j].date, v[i].date)

(* C3: the 7-entry cap is applied after the time filter and the habit filter:
   the final tally counts exactly the first min(7, k) of the k entries that
   pass the filters, in ascending date order; a rejected entry takes no slot *)
C3_CapAfterFilters ==
    pc = "done" =>
        /\ SortedAsc(front_matters)
        /\ tally = CountOver(front_matters, FirstIdx)

(* C3 witness: both filters given, 7 entries pass, and an entry the filters
   reject stands among the first 7 of the sorted journal *)
C3_Witness ==
    /\ pc = "done"
    /\ matches.habit # "none" /\ matches.time # "none"
    /\ Cardinality(PassIdx) >= 7
    /\ \E i \in 1..7 : i \notin PassIdx
    /\ tally[matches.habit] = 7

(* C4: with more than 7 matching entries the tally is that of the 7 most
   recent ones *)
C4_MostRecentSeven ==
    (pc = "done" /\ Cardinality(PassIdx) > 7) =>
        tally = CountOver(front_matters, LastIdx)

(* C9: with a habit filter h, exactly one line is printed, for h, and its
   count is min(7, number of entries passing the time filter with h true) *)
C9_FilteredReport ==
    (pc = "done" /\ matches.habit # "none") =>
        output = <<[count |-> Min(7, Cardinality(PassIdx)), name |-> matches.habit]>>

(* C9 witness: a habit-filtered run, with a time filter, over more than 7
   passing entries, whose other counters differ from the one printed *)
C9_Witness ==
    /\ pc = "done"
    /\ matches.habit = "contrib" /\ matches.time = "month"
    /\ Cardinality(PassIdx) > 7
    /\ tally.exercise # tally.contrib
    /\ Len(output) = 1

(* C10: at every point of the fold each counter is the number of folded
   entries with that flag true, and lies in 0 .. min(7, number of entries) *)
C10_FoldInvariant ==
    /\ tally = CountOver(fm, 1..folded)
    /\ \A h \in HabitFilters :
          tally[h] >= 0 /\ tally[h] <= Min(7, Len(front_matters))

(* C10 witness: the fold stopped at 7 of more than 7 entries, having met
   true and false flags *)
C10_Witness ==
    /\ pc = "done"
    /\ Len(fm) > 7 /\ folded = 7
    /\ tally.exercise > 0 /\ tally.exercise < 7
    /\ tally.contrib # tally.reading

SameIsoWeek(a, b) ==
    /\ IsoYearWeek(a).week = IsoYearWeek(b).week
    /\ IsoYearWeek(a).year = IsoYearWeek(b).year

(* C7: under TimeFilter::Week an entry is retained iff the ISO week number
   and the ISO week-year of its date both equal those of today *)
C7_WeekFilter ==
    (pc \in {"count", "done"} /\ matches.time = "week") =>
        fm = SelectSeq(front_matters, LAMBDA f : SameIsoWeek(f.date, today))

(* C7 witness: the same ISO week number in different ISO week-years, and the
   entry is dropped *)
C7_Witness ==
    /\ pc = "done" /\ matches.time = "week" /\ Len(front_matters) = 1
    /\ IsoYearWeek(front_matters[1].date).week = IsoYearWeek(today).week
    /\ IsoYearWeek(front_matters[1].date).year # IsoYearWeek(today).year
    /\ fm = <<>>

(* C8: under TimeFilter::Month an entry is retained iff its month number
   equals today's, whatever the years *)
C8_MonthFilter ==
    (pc \in {"count", "done"} /\ matches.time = "month") =>
        fm = SelectSeq(front_matters, LAMBDA f : f.date.month = today.month)

(* C8 witness: the same month of another year, and the entry is retained *)
C8_Witness ==
    /\ pc = "done" /\ matches.time = "month" /\ Len(front_matters) = 1
    /\ front_matters[1].date.month = today.month
    /\ front_matters[1].date.year # today.year
    /\ fm = front_matters

-----------------------------------------------------------------------------
(* SpecExtract: parse_frontmatter on one file, unreadable or of any text of
   up to MaxLines lines *)

ExtractLines == {Marker, TitleLine, DateLineA, HabitsLineA, BodyLine}

InitExtract ==
    /\ dir = [readable |-> TRUE, entries |-> <<>>]
    /\ md_files = <<>>
    /\ \E f \in {Unreadable} \cup {FileOf(t) : t \in SeqsUpTo(ExtractLines, MaxLines)} :
          files = <<f>>
    /\ fidx = 1
    /\ block = NoBlock
    /\ front_matters = <<>>
    /\ matches = [action |-> "none", habit |-> "none", time |-> "none"]
    /\ today = RunToday
    /\ fm = <<>>
    /\ folded = 0
    /\ tally = ZeroCount
    /\ output = <<>>
    /\ pc = "parse"

SpecExtract == InitExtract /\ [][NextParse]_vars

(* SpecParse: run() from parse_frontmatter on, over a journal of up to
   MaxFiles files taken from a catalogue of sample files *)

SampleFiles ==
    {FileOf(<<Marker, TitleLine, DateLineA, HabitsLineA, Marker, BodyLine>>),
     FileOf(<<Marker, TitleLine, DateLineB, HabitsLineB, Marker>>),
     Unreadable,
     FileOf(<<BodyLine, BodyLine>>),
     FileOf(<<Marker, TitleLine, HabitsLineA, Marker, BodyLine>>),
     FileOf(<<Marker, TitleLine, DateLineA, HabitsLinePartial, Marker>>),
     FileOf(<<Marker, TitleLine, DateLineB, HabitsLineB>>),
     FileOf(<<Marker, TitleLine, DateLineA, HabitsLineA, Marker,
              BodyLine, Marker, BodyLine, Marker>>)}

InitParse ==
    /\ dir = [readable |-> TRUE, entries |-> <<>>]
    /\ md_files = <<>>
    /\ files \in SeqsUpTo(SampleFiles, MaxFiles)
    /\ fidx = 1
    /\ block = NoBlock
    /\ front_matters = <<>>
    /\ matches \in Matches
    /\ today = RunToday
    /\ fm = <<>>
    /\ folded = 0
    /\ tally = ZeroCount
    /\ output = <<>>
    /\ pc = "parse"

NextRun ==
    \/ NextParse
    \/ NextTally

SpecParse == InitParse /\ [][NextRun]_vars

-----------------------------------------------------------------------------
(* Claims about the frontmatter extractor and the decoder *)

MarkerIdx(lines) == {i \in 1..Len(lines) : lines[i] = Marker}

NthMarker(lines, n) ==
    CHOOSE i \in MarkerIdx(lines) : Cardinality({j \in MarkerIdx(lines) : j < i}) = n - 1

(* the lines strictly between the first and the second marker line *)
BetweenFirstPair(lines) ==
    SubSeq(lines, NthMarker(lines, 1) + 1, NthMarker(lines, 2) - 1)

(* C1: a file with an odd number of marker lines, the last one unclosed,
   yields no block, and no entry is produced from it *)
C1_UnclosedYieldsNothing ==
    /\ (pc = "decode" /\ Cardinality(MarkerIdx(files[fidx].lines)) % 2 = 1)
          => ~block.some
    /\ (pc = "sort" /\ Len(files) = 1 /\ files[1].readable
           /\ Cardinality(MarkerIdx(files[1].lines)) % 2 = 1)
          => front_matters = <<>>

(* C2: with more than two marker lines the block is exactly the lines
   strictly between the first and the second marker *)
C2_FirstPairOnly ==
    (pc = "decode" /\ Cardinality(MarkerIdx(files[fidx].lines)) > 2)
        => block.lines = BetweenFirstPair(files[fidx].lines)

(* a file with a well-formed frontmatter block that deserializes: it can be
   read, it has an opening and a closing marker, and the lines between them
   decode *)
WellFormed(f) ==
    /\ f.readable
    /\ Cardinality(MarkerIdx(f.lines)) >= 2
    /\ DecodeOk(BetweenFirstPair(f.lines))

WellFormedEntries(v) ==
    [i \in 1..Len(SelectSeq(v, WellFormed)) |->
        DecodeFm(BetweenFirstPair(SelectSeq(v, WellFormed)[i].lines))]

(* C5: files that cannot be read, have no frontmatter block or do not
   deserialize produce no entry; the entries, and with them the tally, are
   those of the well-formed files alone *)
C5_BestEffortExclusion ==
    /\ pc = "sort" => front_matters = WellFormedEntries(files)
    /\ pc = "done" =>
          tally = CountOver(SortByDate(WellFormedEntries(files)),
                            FirstIdxOf(SortByDate(WellFormedEntries(files))))

-----------------------------------------------------------------------------
(* SpecWalk: find_files on a journal directory of up to MaxDirEntries
   entries, whose subdirectories hold at most one entry *)

LeafEntries == {FileEntry("md"), FileEntry("txt"), EntryErr, TypeErr}

SubDirs ==
    {NoDir} \cup {[readable |-> TRUE, entries |-> es] : es \in SeqsUpTo(LeafEntries, 1)}

RootEntries == LeafEntries \cup {DirEntry(d) : d \in SubDirs}

JournalDirs ==
    {NoDir} \cup
    {[readable |-> TRUE, entries |-> es] : es \in SeqsUpTo(RootEntries, MaxDirEntries)}

InitWalk ==
    /\ dir \in JournalDirs
    /\ md_files = <<>>
    /\ files = <<>>
    /\ fidx = 1
    /\ block = NoBlock
    /\ front_matters = <<>>
    /\ matches = [action |-> "none", habit |-> "none", time |-> "none"]
    /\ today = RunToday
    /\ fm = <<>>
    /\ folded = 0
    /\ tally = ZeroCount
    /\ output = <<>>
    /\ pc = "walk"

SpecWalk == InitWalk /\ [][NextWalk]_vars

(* the paths of the .md files that can be read under a directory: those of
   its file entries, and those under its subdirectories that can be listed *)
RECURSIVE ReadableMd(_, _)
ReadableMd(d, path) ==
    IF ~d.readable THEN {}
    ELSE UNION {
        LET e == d.entries[i]
        IN  CASE e.kind = "file" /\ e.ext = "md" -> {Append(path, i)}
              [] e.kind = "dir" -> ReadableMd(e.sub, Append(path, i))
              [] OTHER -> {}
        : i \in 1..Len(d.entries)}

(* C6: when the root can be read the walk is not aborted by a failure on an
   entry or a subdirectory, and returns every readable .md file under the root *)
C6_WalkBestEffort ==
    (pc # "walk" /\ dir.readable) =>
        /\ pc = "parse"
        /\ {md_files[i] : i \in 1..Len(md_files)} = ReadableMd(dir, <<>>)

====
